---- MODULE Spec2Model ----
(***************************************************************************)
(* Model of pipecatlearn/v2/server.py: the FastAPI relay between Twilio's  *)
(* webhooks / media-stream WebSocket and the bot runtime (run_bot).        *)
(*                                                                         *)
(* HTTP route handlers contain no await on anything but their own return,  *)
(* so each request is one atomic action.  The WebSocket handler suspends   *)
(* at accept(), at each __anext__() and at run_bot(), so it is one action  *)
(* per stretch of code between two suspension points.                      *)
(***************************************************************************)
EXTENDS Naturals, Sequences, FiniteSets, TLC

VARIABLES
    TWILIO_ACCOUNT_SID,   \* module globals read from the environment at import
    TWILIO_AUTH_TOKEN,
    TWILIO_PHONE_NUMBER,
    DEFAULT_TO_NUMBER,
    template,             \* content of the file at xml_path (NoFile: no such file)
    server,               \* "stopped" | "serving"
    launcher,             \* "none" | "main" | "asgi" (app served without main)
    testing,              \* app.state.testing (Unset: attribute never assigned)
    exchange,             \* the last HTTP request served, its response and trace
    pc,                   \* per connection: position of websocket_endpoint
    sent,                 \* per socket: text frames the peer has sent so far
    nread,                \* per socket: how many of them have been received
    closed,               \* per socket: the peer has closed the connection
    start_data,           \* per handler: the socket its frame iterator reads
    bot                   \* per handler: the arguments of its run_bot call

config == <<TWILIO_ACCOUNT_SID, TWILIO_AUTH_TOKEN, TWILIO_PHONE_NUMBER,
            DEFAULT_TO_NUMBER>>
process == <<server, launcher, testing>>
wsvars == <<pc, sent, nread, closed, start_data, bot>>
vars == <<config, template, process, exchange, wsvars>>

---------------------------------------------------------------------------
(* Bounds of the model *)

MaxTemplateLen == 2
MaxFrames == 2

---------------------------------------------------------------------------
(* Python values *)

None == "None"            \* Python's None
Absent == "<absent>"      \* a query parameter the request does not carry
Unset == "<unset>"        \* an attribute that was never assigned
NoFile == <<"<no file>">>

\* `not v` for v : Optional[str]
Falsy(v) == v = None \/ v = ""

\* x or y
Or(x, y) == IF Falsy(x) THEN y ELSE x

\* what os.getenv can return for a variable
EnvValues(v) == {None, "", v}

---------------------------------------------------------------------------
(* Exceptions and responses *)

NoExc == [type |-> "-", status_code |-> 0, detail |-> <<>>]

\* fastapi.HTTPException(status_code=..., detail=...)
HTTPException(code, detail) ==
    [type |-> "HTTPException", status_code |-> code, detail |-> detail]

\* an exception of the provider SDK or of its transport (subclasses of Exception)
ProviderException(t) == [type |-> t, status_code |-> 0, detail |-> <<t>>]

\* the decimal text of a status code
StatusText(code) == IF code = 400 THEN "400" ELSE IF code = 500 THEN "500" ELSE "?"

\* str(e): starlette's HTTPException prints "<status_code>: <detail>"
Str(e) == IF e.type = "HTTPException" THEN <<StatusText(e.status_code)>> \o e.detail
          ELSE e.detail

\* What FastAPI answers when a handler raises e: an HTTPException becomes a
\* response with its status code and detail, anything else a plain 500.
ExceptionResponse(e) ==
    IF e.type = "HTTPException"
    THEN [status |-> e.status_code, media_type |-> "application/json",
          body |-> [detail |-> e.detail]]
    ELSE [status |-> 500, media_type |-> "text/plain",
          body |-> [detail |-> <<"Internal Server Error">>]]

\* a handler's returned dict, serialised by FastAPI
JSONResponse(value) ==
    [status |-> 200, media_type |-> "application/json", body |-> value]

---------------------------------------------------------------------------
(* The template file and the two TwiML handlers *)

TemplateChars == {"<", "CR", "LF"}

RECURSIVE SeqsUpTo(_, _)
SeqsUpTo(S, n) ==
    IF n = 0 THEN {<<>>}
    ELSE LET shorter == SeqsUpTo(S, n - 1)
         IN  shorter \cup {Append(s, x) : s \in shorter, x \in S}

Templates == SeqsUpTo(TemplateChars, MaxTemplateLen) \cup {NoFile}

\* open(xml_path).read(): text mode with newline=None, so "\r\n" and a lone
\* "\r" both arrive as "\n".
RECURSIVE UniversalNewlines(_)
UniversalNewlines(s) ==
    IF s = <<>> THEN <<>>
    ELSE IF Head(s) = "CR"
         THEN IF Len(s) >= 2 /\ s[2] = "LF"
              THEN <<"LF">> \o UniversalNewlines(Tail(Tail(s)))
              ELSE <<"LF">> \o UniversalNewlines(Tail(s))
         ELSE <<Head(s)>> \o UniversalNewlines(Tail(s))

\* HTMLResponse(content=..., media_type=...)
HTMLResponse(content, media_type) ==
    [status |-> 200, media_type |-> media_type, body |-> content]

\* an exception that is not an HTTPException
PythonException(t) == [type |-> t, status_code |-> 0, detail |-> <<t>>]

\* HTMLResponse(content=open(xml_path).read(), media_type=...); open() of a
\* missing file raises FileNotFoundError, which the handler does not catch
ReadTemplate(t, media_type) ==
    IF t = NoFile THEN ExceptionResponse(PythonException("FileNotFoundError"))
    ELSE HTMLResponse(UniversalNewlines(t), media_type)

start_call_text_html(t) == ReadTemplate(t, "text/html")

\* POST /
start_call(t) == ReadTemplate(t, "application/xml")

\* POST /outbound-twiml
outbound_twiml(t) == ReadTemplate(t, "application/xml")

---------------------------------------------------------------------------
(* The telephony provider, as the handlers see it *)

\* call resources the provider can return
ProviderCalls ==
    { [sid |-> "CA1", status |-> "queued", direction |-> "outbound-api",
       to |-> "+15550007", from_ |-> "+15550001", duration |-> None,
       start_time |-> None, end_time |-> None],
      [sid |-> "CA2", status |-> "completed", direction |-> "inbound",
       to |-> "+15550001", from_ |-> "+15550009", duration |-> "42",
       start_time |-> "t0", end_time |-> "t1"] }

NoCall == [sid |-> "-", status |-> "-", direction |-> "-", to |-> "-",
           from_ |-> "-", duration |-> "-", start_time |-> "-", end_time |-> "-"]

\* outcome of one provider operation: it returns a call or raises
ProviderOutcomes ==
    { [raises |-> FALSE, call |-> c, exc |-> NoExc] : c \in ProviderCalls }
    \cup
    { [raises |-> TRUE, call |-> NoCall, exc |-> ProviderException(t)] :
        t \in {"TwilioRestException", "ConnectionError"} }

---------------------------------------------------------------------------
(* GET /outbound *)

CredentialsMissingBoth(sid, token) == Falsy(sid) /\ Falsy(token)

\* if not TWILIO_ACCOUNT_SID or not TWILIO_AUTH_TOKEN
CredentialsMissing(sid, token) == Falsy(sid) \/ Falsy(token)

SourceNumberDefaultOnly(from_number, default) == default

\* from_number = from_number or TWILIO_PHONE_NUMBER
SourceNumber(from_number, default) == Or(from_number, default)

\* f"{req.url.scheme}://{req.url.netloc}"
BaseUrl(req) == req.scheme \o "://" \o req.netloc

\* f"{base_url}/outbound-twiml"
WebhookUrl(req) == BaseUrl(req) \o "/outbound-twiml"

\* a query parameter with a default
QueryParam(value, default) == IF value = Absent THEN default ELSE value

\* How a try block ended (raised exc, or returned value) and what it did on
\* the way: client: Client(...) was constructed; creates: the arguments of each
\* client.calls.create; fetches: the sid of each client.calls(sid).fetch();
\* returned: the call object the provider returned
Result(raised, exc, value, client, creates, fetches, returned) ==
    [raised |-> raised, exc |-> exc, value |-> value, client |-> client,
     creates |-> creates, fetches |-> fetches, returned |-> returned]

NoValue == [success |-> FALSE]

\* the body of the try block of initiate_outbound_call
OutboundTry(sid, token, phone, req, to_number, from_param, outcome) ==
    IF CredentialsMissing(sid, token)
    THEN Result(TRUE,
                HTTPException(500, <<"Twilio credentials not configured">>),
                NoValue, FALSE, <<>>, <<>>, NoCall)
    ELSE LET from_number == SourceNumber(from_param, phone)
         IN  IF Falsy(from_number)
             THEN Result(TRUE,
                         HTTPException(400,
                             <<"From number not provided and no default configured">>),
                         NoValue, TRUE, <<>>, <<>>, NoCall)
             ELSE LET args == [to |-> to_number, from_ |-> from_number,
                               url |-> WebhookUrl(req), method |-> "POST"]
                  IN  IF outcome.raises
                      THEN Result(TRUE, outcome.exc, NoValue, TRUE, <<args>>, <<>>,
                                  NoCall)
                      ELSE Result(FALSE, NoExc,
                                  [success |-> TRUE,
                                   call_sid |-> outcome.call.sid,
                                   status |-> outcome.call.status,
                                   to |-> to_number,
                                   from |-> from_number,
                                   webhook_url |-> WebhookUrl(req)],
                                  TRUE, <<args>>, <<>>, outcome.call)

OutboundExceptSwallow(e) == NoExc

\* except Exception as e: raise HTTPException(500, f"Failed to initiate call: {str(e)}")
OutboundExcept(e) == HTTPException(500, <<"Failed to initiate call">> \o Str(e))

\* the response of a handler whose try block ended as r; caught is what its
\* except clause raises in place of r.exc (NoExc: nothing is raised)
Respond(r, caught) ==
    IF r.raised /\ caught # NoExc THEN ExceptionResponse(caught)
    ELSE JSONResponse(r.value)

initiate_outbound_call(sid, token, phone, default_to, req, outcome) ==
    LET to_number == QueryParam(req.to_number, default_to)
        from_param == QueryParam(req.from_number, None)
        r == OutboundTry(sid, token, phone, req, to_number, from_param, outcome)
    IN  [resp |-> Respond(r, IF r.raised THEN OutboundExcept(r.exc) ELSE NoExc),
         cause |-> r.exc, client |-> r.client, creates |-> r.creates,
         fetches |-> r.fetches, returned |-> r.returned]

---------------------------------------------------------------------------
(* GET /call-status/{call_sid} *)

CallProjectionFrom(call) ==
    [call_sid |-> call.sid, status |-> call.status, direction |-> call.direction,
     to |-> call.from_, duration |-> call.duration,
     start_time |-> call.start_time, end_time |-> call.end_time]

\* the dict get_call_status returns
CallProjection(call) ==
    [call_sid |-> call.sid, status |-> call.status, direction |-> call.direction,
     to |-> call.to, duration |-> call.duration,
     start_time |-> call.start_time, end_time |-> call.end_time]

\* except Exception as e: raise HTTPException(500, f"Failed to fetch call status: ...")
StatusExcept(e) == HTTPException(500, <<"Failed to fetch call status">> \o Str(e))

StatusTry(sid, token, call_sid, outcome) ==
    IF CredentialsMissing(sid, token)
    THEN Result(TRUE,
                HTTPException(500, <<"Twilio credentials not configured">>),
                NoValue, FALSE, <<>>, <<>>, NoCall)
    ELSE IF outcome.raises
         THEN Result(TRUE, outcome.exc, NoValue, TRUE, <<>>, <<call_sid>>, NoCall)
         ELSE Result(FALSE, NoExc, CallProjection(outcome.call), TRUE, <<>>,
                     <<call_sid>>, outcome.call)

get_call_status(sid, token, call_sid, outcome) ==
    LET r == StatusTry(sid, token, call_sid, outcome)
    IN  [resp |-> Respond(r, IF r.raised THEN StatusExcept(r.exc) ELSE NoExc),
         cause |-> r.exc, client |-> r.client, creates |-> r.creates,
         fetches |-> r.fetches, returned |-> r.returned]

---------------------------------------------------------------------------
(* Requests *)

\* req.url.scheme and req.url.netloc of the requests the server receives
Urls == { [scheme |-> "https", netloc |-> "relay.example"],
          [scheme |-> "http", netloc |-> "localhost:8765"] }

NoRequest == [to_number |-> Absent, from_number |-> Absent, scheme |-> "-",
              netloc |-> "-", call_sid |-> Absent]

TwimlRequests ==
    { [NoRequest EXCEPT !.scheme = u.scheme, !.netloc = u.netloc] : u \in Urls }

OutboundRequests ==
    { [to_number |-> t, from_number |-> f, scheme |-> u.scheme,
       netloc |-> u.netloc, call_sid |-> Absent] :
        t \in {Absent, "+15550007"}, f \in {Absent, "", "+15550002"},
        u \in Urls }

StatusRequests ==
    { [NoRequest EXCEPT !.scheme = "http", !.netloc = "relay.example",
                        !.call_sid = c] : c \in {"CA1", "CA9"} }

NoExchange ==
    [endpoint |-> "-", request |-> NoRequest,
     resp |-> [status |-> 0, media_type |-> "-", body |-> <<>>],
     cause |-> NoExc, client |-> FALSE, creates |-> <<>>, fetches |-> <<>>,
     returned |-> NoCall]

Exchange(endpoint, req, out) ==
    [endpoint |-> endpoint, request |-> req, resp |-> out.resp,
     cause |-> out.cause, client |-> out.client, creates |-> out.creates,
     fetches |-> out.fetches, returned |-> out.returned]

\* a handler that touches neither the provider nor a try block
Plain(resp) ==
    [resp |-> resp, cause |-> NoExc, client |-> FALSE, creates |-> <<>>,
     fetches |-> <<>>, returned |-> NoCall]

---------------------------------------------------------------------------
(* The process *)

Conns == {"ws1", "ws2"}

MainTestingFalse == "False"

\* app.state.testing = True
MainTesting == "True"

\* main(): sets the flag, then uvicorn.run(app, ...) starts serving
Main ==
    /\ server = "stopped"
    /\ testing' = MainTesting
    /\ launcher' = "main"
    /\ server' = "serving"
    /\ UNCHANGED <<config, template, exchange, wsvars>>

\* the module defines no __main__ guard: an ASGI server given the app object
\* serves it without main() ever running
ServeApp ==
    /\ server = "stopped"
    /\ launcher' = "asgi"
    /\ server' = "serving"
    /\ UNCHANGED <<config, template, testing, exchange, wsvars>>

---------------------------------------------------------------------------
(* HTTP actions: one request served from start to end *)

StartCall ==
    /\ server = "serving"
    /\ \E req \in TwimlRequests :
          exchange' = Exchange("POST /", req, Plain(start_call(template)))
    /\ UNCHANGED <<config, template, process, wsvars>>

OutboundTwiml ==
    /\ server = "serving"
    /\ \E req \in TwimlRequests :
          exchange' = Exchange("POST /outbound-twiml", req,
                               Plain(outbound_twiml(template)))
    /\ UNCHANGED <<config, template, process, wsvars>>

InitiateOutboundCall ==
    /\ server = "serving"
    /\ \E req \in OutboundRequests, outcome \in ProviderOutcomes :
          exchange' = Exchange("GET /outbound", req,
                               initiate_outbound_call(TWILIO_ACCOUNT_SID,
                                   TWILIO_AUTH_TOKEN, TWILIO_PHONE_NUMBER,
                                   DEFAULT_TO_NUMBER, req, outcome))
    /\ UNCHANGED <<config, template, process, wsvars>>

GetCallStatus ==
    /\ server = "serving"
    /\ \E req \in StatusRequests, outcome \in ProviderOutcomes :
          exchange' = Exchange("GET /call-status", req,
                               get_call_status(TWILIO_ACCOUNT_SID,
                                   TWILIO_AUTH_TOKEN, req.call_sid, outcome))
    /\ UNCHANGED <<config, template, process, wsvars>>

---------------------------------------------------------------------------
(* WebSocket /ws *)

\* A text frame, by what json.loads and the two subscripts make of it:
\* json: it parses; start: the object has a "start" key; streamSid, callSid:
\* the values under start (Absent: no such key).
Frame(json, start, streamSid, callSid) ==
    [json |-> json, start |-> start, streamSid |-> streamSid, callSid |-> callSid]

Connected == Frame(TRUE, FALSE, Absent, Absent)     \* {"event": "connected", ...}
Garbage == Frame(FALSE, FALSE, Absent, Absent)      \* not JSON
Start(streamSid, callSid) == Frame(TRUE, TRUE, streamSid, callSid)

Frames == { Connected, Garbage, Start("MZ1", "CA1"), Start("MZ2", "CA2"),
            Start(Absent, "CA1"), Start("MZ1", Absent) }

BindIteratorGlobal(sd, c) == [h \in Conns |-> c]

\* start_data = websocket.iter_text(): a local of the handler of connection c
BindIterator(sd, c) == [sd EXCEPT ![c] = c]

AfterAcceptNoHandshake == "second"

\* where the handler waits once accepted: at the __anext__() whose result it drops
AfterAccept == "first"

ExtractsLenient(f, flag) ==
    /\ f.json
    /\ f.start
    /\ f.streamSid # Absent
    /\ flag # Unset

\* json.loads(...), call_data["start"]["streamSid"], call_data["start"]["callSid"]
\* and app.state.testing all evaluate without raising
Extracts(f, flag) ==
    /\ f.json
    /\ f.start
    /\ f.streamSid # Absent
    /\ f.callSid # Absent
    /\ flag # Unset

\* the arguments of run_bot(websocket, stream_sid, call_sid, app.state.testing)
RunBotArgs(c, f, flag) ==
    [websocket |-> c, stream_sid |-> f.streamSid, call_sid |-> f.callSid,
     testing |-> flag]

\* the handler of a new connection runs up to its first __anext__()
WsAccept(c) ==
    /\ server = "serving"
    /\ pc[c] = "idle"
    /\ pc' = [pc EXCEPT ![c] = AfterAccept]
    /\ start_data' = BindIterator(start_data, c)
    /\ UNCHANGED <<config, template, process, exchange, sent, nread, closed, bot>>

\* the peer sends a text frame while the handler is still reading the handshake
PeerSend(c) ==
    /\ pc[c] \in {"first", "second"}
    /\ ~closed[c]
    /\ Len(sent[c]) < MaxFrames
    /\ \E f \in Frames : sent' = [sent EXCEPT ![c] = Append(@, f)]
    /\ UNCHANGED <<config, template, process, exchange, pc, nread, closed,
                   start_data, bot>>

PeerClose(c) ==
    /\ pc[c] \in {"first", "second"}
    /\ ~closed[c]
    /\ closed' = [closed EXCEPT ![c] = TRUE]
    /\ UNCHANGED <<config, template, process, exchange, pc, sent, nread,
                   start_data, bot>>

\* await start_data.__anext__() has a frame to return
Readable(s) == nread[s] < Len(sent[s])

\* the iterator ends (StopAsyncIteration) once the peer has closed and
\* nothing is left to read
Exhausted(s) == ~Readable(s) /\ closed[s]

\* await start_data.__anext__()  (first frame: the result is dropped)
ReadFirst(c) ==
    /\ pc[c] = "first"
    /\ LET s == start_data[c]
       IN  \/ /\ Readable(s)
              /\ nread' = [nread EXCEPT ![s] = @ + 1]
              /\ pc' = [pc EXCEPT ![c] = "second"]
           \/ /\ Exhausted(s)
              /\ pc' = [pc EXCEPT ![c] = "raised"]
              /\ UNCHANGED nread
    /\ UNCHANGED <<config, template, process, exchange, sent, closed,
                   start_data, bot>>

\* call_data = json.loads(await start_data.__anext__()) up to the call of
\* run_bot: no suspension point in between
ReadSecond(c) ==
    /\ pc[c] = "second"
    /\ LET s == start_data[c]
       IN  \/ /\ Readable(s)
              /\ nread' = [nread EXCEPT ![s] = @ + 1]
              /\ LET f == sent[s][nread[s] + 1]
                 IN  IF Extracts(f, testing)
                     THEN /\ bot' = [bot EXCEPT
                                       ![c] = Append(@, RunBotArgs(c, f, testing))]
                          /\ pc' = [pc EXCEPT ![c] = "run_bot"]
                     ELSE /\ pc' = [pc EXCEPT ![c] = "raised"]
                          /\ UNCHANGED bot
           \/ /\ Exhausted(s)
              /\ pc' = [pc EXCEPT ![c] = "raised"]
              /\ UNCHANGED <<nread, bot>>
    /\ UNCHANGED <<config, template, process, exchange, sent, closed, start_data>>

\* run_bot returns and the handler ends
RunBotReturns(c) ==
    /\ pc[c] = "run_bot"
    /\ pc' = [pc EXCEPT ![c] = "done"]
    /\ UNCHANGED <<config, template, process, exchange, sent, nread, closed,
                   start_data, bot>>

---------------------------------------------------------------------------
(* Initial states *)

WsIdle ==
    /\ pc = [c \in Conns |-> "idle"]
    /\ sent = [c \in Conns |-> <<>>]
    /\ nread = [c \in Conns |-> 0]
    /\ closed = [c \in Conns |-> FALSE]
    /\ start_data = [c \in Conns |-> "-"]
    /\ bot = [c \in Conns |-> <<>>]

ProcessInit ==
    /\ server = "stopped"
    /\ launcher = "none"
    /\ testing = Unset
    /\ exchange = NoExchange

\* the state after import: load_dotenv and os.getenv have run, no request yet
HttpInit ==
    /\ TWILIO_ACCOUNT_SID \in EnvValues("AC1")
    /\ TWILIO_AUTH_TOKEN \in EnvValues("token")
    /\ TWILIO_PHONE_NUMBER \in EnvValues("+15550001")
    /\ DEFAULT_TO_NUMBER \in {None, "+15550003"}
    /\ template \in Templates
    /\ ProcessInit
    /\ WsIdle

HttpNext ==
    \/ Main
    \/ ServeApp
    \/ StartCall
    \/ OutboundTwiml
    \/ InitiateOutboundCall
    \/ GetCallStatus

HttpSpec == HttpInit /\ [][HttpNext]_vars

\* a configured deployment before main() or an ASGI server starts it
WsInit ==
    /\ TWILIO_ACCOUNT_SID = "AC1"
    /\ TWILIO_AUTH_TOKEN = "token"
    /\ TWILIO_PHONE_NUMBER = "+15550001"
    /\ DEFAULT_TO_NUMBER = "+15550003"
    /\ template = <<"<">>
    /\ ProcessInit
    /\ WsIdle

WsNext ==
    \/ Main
    \/ ServeApp
    \/ \E c \in Conns : WsAccept(c)
    \/ \E c \in Conns : PeerSend(c)
    \/ \E c \in Conns : PeerClose(c)
    \/ \E c \in Conns : ReadFirst(c)
    \/ \E c \in Conns : ReadSecond(c)
    \/ \E c \in Conns : RunBotReturns(c)

WsSpec == WsInit /\ [][WsNext]_vars

---------------------------------------------------------------------------
(* Properties of GET /outbound *)

Outbound == exchange.endpoint = "GET /outbound"

\* the credentials the handler needs are both configured
Configured ==
    /\ TWILIO_ACCOUNT_SID \notin {None, ""}
    /\ TWILIO_AUTH_TOKEN \notin {None, ""}

\* the request carries no usable from_number and no default is configured
NoSourceNumber ==
    /\ exchange.request.from_number \in {Absent, ""}
    /\ TWILIO_PHONE_NUMBER \in {None, ""}

\* call-creation raised
CreateRaised ==
    exchange.cause.type \in {"TwilioRestException", "ConnectionError"}

\* C1: with the credentials configured, a request with no from_number and no
\* configured default source number is answered with HTTP 400 and does not
\* reach call-creation.
C1_MissingSourceNumberIs400 ==
    (Outbound /\ Configured /\ NoSourceNumber) =>
        /\ exchange.resp.status = 400
        /\ exchange.creates = <<>>

\* C2: when the account SID or the auth token is not configured the answer is
\* HTTP 500 whatever to_number and from_number are, no client is constructed,
\* call-creation is not invoked, and the error raised is the credentials error
\* even when the source number is missing too.
C2_MissingCredentialsIs500 ==
    (Outbound /\ ~Configured) =>
        /\ exchange.resp.status = 500
        /\ ~exchange.client
        /\ exchange.creates = <<>>
        /\ exchange.cause =
               HTTPException(500, <<"Twilio credentials not configured">>)

C2_Witness ==
    /\ Outbound
    /\ TWILIO_ACCOUNT_SID = "AC1"
    /\ TWILIO_AUTH_TOKEN = None
    /\ NoSourceNumber
    /\ exchange.request.to_number = "+15550007"
    /\ exchange.resp.status = 500

\* C3: a call-creation that raises is answered with HTTP 500 and no success
\* summary; a success summary is produced only after call-creation returned
\* normally; call-creation is invoked at most once per request.
C3_ProviderErrorIs500 ==
    Outbound =>
        /\ CreateRaised =>
              /\ exchange.resp.status = 500
              /\ "success" \notin DOMAIN exchange.resp.body
        /\ (exchange.resp.status = 200 /\ "success" \in DOMAIN exchange.resp.body) =>
              /\ exchange.resp.body.success
              /\ Len(exchange.creates) = 1
              /\ exchange.returned \in ProviderCalls
              /\ ~CreateRaised
        /\ Len(exchange.creates) <= 1

C3_Witness ==
    /\ Outbound
    /\ exchange.cause.type = "TwilioRestException"
    /\ Len(exchange.creates) = 1
    /\ exchange.resp.status = 500

\* C4: a success summary reports what was sent to the provider: to, from and
\* webhook_url are the to, from_ and url arguments of call-creation, from_ is
\* the request's from_number when it is supplied and non-empty and the
\* configured default otherwise, url is scheme://netloc/outbound-twiml, and
\* call_sid and status are those of the call the provider returned.
C4_SummaryMatchesCall ==
    (Outbound /\ exchange.resp.status = 200) =>
        /\ Len(exchange.creates) = 1
        /\ LET body == exchange.resp.body
               args == exchange.creates[1]
               req == exchange.request
           IN  /\ DOMAIN body = {"success", "call_sid", "status", "to", "from",
                                 "webhook_url"}
               /\ body.success
               /\ body.to = args.to
               /\ body.from = args.from_
               /\ args.from_ = IF req.from_number \notin {Absent, ""}
                               THEN req.from_number
                               ELSE TWILIO_PHONE_NUMBER
               /\ body.webhook_url = args.url
               /\ args.url = req.scheme \o "://" \o req.netloc \o "/outbound-twiml"
               /\ body.call_sid = exchange.returned.sid
               /\ body.status = exchange.returned.status

C4_Witness ==
    /\ Outbound
    /\ exchange.resp.status = 200
    /\ exchange.request.from_number = "+15550002"
    /\ TWILIO_PHONE_NUMBER = "+15550001"
    /\ exchange.resp.body.from = "+15550002"
    /\ exchange.resp.body.call_sid = "CA2"

---------------------------------------------------------------------------
(* Properties of GET /call-status/{call_sid} *)

CallStatus == exchange.endpoint = "GET /call-status"

\* C6: every answer is the projection {call_sid, status, direction, to,
\* duration, start_time, end_time} of the call fetched for the requested sid,
\* or HTTP 500; it is HTTP 500 exactly when the credentials are not configured
\* or the fetch raises, and without credentials the provider is not contacted.
C6_StatusProjectionOr500 ==
    CallStatus =>
        LET call == exchange.returned
            body == exchange.resp.body
            fetchRaised == exchange.cause.type \in
                               {"TwilioRestException", "ConnectionError"}
        IN  /\ exchange.resp.status \in {200, 500}
            /\ exchange.resp.status = 200 =>
                  /\ exchange.fetches = <<exchange.request.call_sid>>
                  /\ call \in ProviderCalls
                  /\ DOMAIN body = {"call_sid", "status", "direction", "to",
                                    "duration", "start_time", "end_time"}
                  /\ body.call_sid = call.sid
                  /\ body.status = call.status
                  /\ body.direction = call.direction
                  /\ body.to = call.to
                  /\ body.duration = call.duration
                  /\ body.start_time = call.start_time
                  /\ body.end_time = call.end_time
            /\ exchange.resp.status = 500 <=> (~Configured \/ fetchRaised)
            /\ ~Configured =>
                  /\ ~exchange.client
                  /\ exchange.fetches = <<>>
                  /\ exchange.creates = <<>>

C6_Witness ==
    /\ CallStatus
    /\ exchange.request.call_sid = "CA1"
    /\ exchange.resp.status = 200
    /\ exchange.resp.body.call_sid = "CA1"
    /\ exchange.resp.body.to = "+15550007"

---------------------------------------------------------------------------
(* Properties of POST / and POST /outbound-twiml *)

Twiml == exchange.endpoint \in {"POST /", "POST /outbound-twiml"}

IsText(ch) == ch \notin {"CR", "LF"}

Chars(s) == { s[i] : i \in 1..Len(s) }

---------------------------------------------------------------------------
(* Properties of WebSocket /ws *)

\* run_bot has been called by the handler of connection c
Invoked(c) == bot[c] # <<>>

\* the second frame the peer of c sent cannot be turned into identifiers
BadStart(f) == ~f.json \/ ~f.start \/ f.streamSid = Absent \/ f.callSid = Absent

\* C5: run_bot is called only once the connection is accepted and exactly two
\* text frames have been read from it; the identifiers passed are those of the
\* start object of the second frame, whatever the first frame was; run_bot is
\* called at most once per connection.
C5_RunBotAfterTwoFrames ==
    \A c \in Conns :
        /\ Len(bot[c]) <= 1
        /\ Invoked(c) =>
              /\ pc[c] \in {"run_bot", "done"}
              /\ start_data[c] = c
              /\ nread[c] = 2
              /\ Len(sent[c]) >= 2
              /\ sent[c][2].json /\ sent[c][2].start
              /\ bot[c][1].stream_sid = sent[c][2].streamSid
              /\ bot[c][1].call_sid = sent[c][2].callSid
        /\ pc[c] \in {"run_bot", "done"} => Invoked(c)

C5_Witness ==
    /\ pc["ws1"] = "run_bot"
    /\ sent["ws1"] = <<Start("MZ1", "CA1"), Start("MZ2", "CA2")>>
    /\ bot["ws1"] = <<RunBotArgs("ws1", Start("MZ2", "CA2"), "True")>>

\* C8: every call of run_bot receives the process-wide testing flag; main sets
\* it to true before the server accepts connections and nothing writes it
\* while the server is serving, so all connections of a process started
\* through main hand run_bot the same value.
C8_TestingFlag ==
    /\ [](/\ \A c \in Conns : Invoked(c) => bot[c][1].testing = testing
          /\ (server = "serving" /\ launcher = "main") => testing = "True"
          /\ launcher = "main" =>
                \A c \in Conns : Invoked(c) => bot[c][1].testing = "True"
          /\ \A c, d \in Conns :
                (Invoked(c) /\ Invoked(d)) => bot[c][1].testing = bot[d][1].testing)
    /\ [][server = "serving" => testing' = testing]_vars

C8_Witness ==
    /\ launcher = "main"
    /\ \A c \in Conns : Invoked(c) /\ bot[c][1].testing = "True"

\* C9: when the peer closes before two text frames were delivered, or the
\* second frame is not JSON or lacks start.streamSid or start.callSid, run_bot
\* is not called for that connection and the handler ends with an exception:
\* its pending read is not left waiting, and it reads no further frame.
C9_FailurePath ==
    \A c \in Conns :
        /\ (closed[c] /\ Len(sent[c]) < 2) =>
              /\ ~Invoked(c)
              /\ pc[c] \in {"first", "second", "raised"}
        /\ (pc[c] \in {"first", "second"} /\ Exhausted(start_data[c])) =>
              /\ ENABLED (ReadFirst(c) \/ ReadSecond(c))
              /\ ~ENABLED ((ReadFirst(c) \/ ReadSecond(c)) /\ pc'[c] # "raised")
        /\ (nread[c] = 2 /\ BadStart(sent[c][2])) =>
              /\ ~Invoked(c)
              /\ pc[c] = "raised"
        /\ pc[c] = "raised" => ~Invoked(c) /\ nread[c] <= 2

C9_Witness ==
    /\ pc["ws1"] = "raised"
    /\ nread["ws1"] = 2
    /\ sent["ws1"] = <<Connected, Start("MZ1", Absent)>>
    /\ pc["ws2"] = "raised"
    /\ closed["ws2"]
    /\ sent["ws2"] = <<Connected>>
    /\ nread["ws2"] = 1
    /\ testing = "True"

\* C10: whatever the interleaving of the reads of several open connections,
\* the handler of a connection reads only its own socket, and run_bot gets
\* that socket with the identifiers of that connection's own second frame.
C10_ConnectionsIsolated ==
    \A c \in Conns :
        /\ pc[c] # "idle" => start_data[c] = c
        /\ pc[c] \in {"idle", "first"} => nread[c] = 0
        /\ pc[c] = "second" => nread[c] = 1
        /\ Invoked(c) =>
              /\ bot[c][1].websocket = c
              /\ <<bot[c][1].stream_sid, bot[c][1].call_sid>> =
                     <<sent[c][2].streamSid, sent[c][2].callSid>>

C10_Witness ==
    /\ bot["ws2"] = <<RunBotArgs("ws2", Start("MZ2", "CA2"), "True")>>
    /\ pc["ws1"] = "second"
    /\ sent["ws1"] = <<Connected, Start("MZ1", "CA1")>>
    /\ nread["ws1"] = 1

====
